---- MODULE Spec2Model ----
(***************************************************************************)
(* A model of the two example container payloads of exec-agent:            *)
(*   exec-agent/examples/test_container.py  (script = "test")              *)
(*   exec-agent/examples/worker_script.py   (script = "worker")            *)
(* One behaviour is one run of main() of one script against one workspace  *)
(* (/workspace/input, /workspace/config, /workspace/output) and one        *)
(* environment.  JSON objects are functions from keys to values, JSON      *)
(* lists are sequences.                                                    *)
(***************************************************************************)
EXTENDS Integers, Sequences, FiniteSets, TLC

\* Bounds of the enumerated inputs.
MaxNodes == 3
MaxRels == 2
MaxFiles == 2

VARIABLES
    script,          \* which main() runs: "test" or "worker"
    pc,              \* position of main()
    env,             \* os.environ: function from variable name to value
    inputDir,        \* /workspace/input: name -> [is_file, content]
    configDir,       \* /workspace/config: name -> content
    outputExists,    \* whether /workspace/output exists
    outputDir,       \* /workspace/output: name -> content
    execution_id,    \* test_container.main: execution_id
    results,         \* test_container.main: results
    config,          \* worker_script.main: config
    result,          \* worker_script.main: result
    retval,          \* exit status: -1 while running, 0 returned, 1 uncaught exception
    health_response, \* the answer requests.get(.../health) got, if it was called
    healthRequests,  \* number of GET /health requests made
    writeLog,        \* the files opened for writing, in order
    handlerLog       \* worker_script: the handlers main() called, in order

vars == <<script, pc, env, inputDir, configDir, outputExists, outputDir,
          execution_id, results, config, result, retval, health_response,
          healthRequests, writeLog, handlerLog>>

workspaceVars == <<script, env, inputDir, configDir>>

-----------------------------------------------------------------------------
(* JSON objects (Python dicts)                                              *)

EmptyObj == [k \in {} |-> TRUE]

\* d[k] = v
Put(d, k, v) == [x \in (DOMAIN d) \cup {k} |-> IF x = k THEN v ELSE d[x]]

\* d.get(k, default)
Get(d, k, default) == IF k \in DOMAIN d THEN d[k] ELSE default

\* The order in which the keys of the enumerated objects appear in their file.
KeyOrder == <<"operation", "input_files", "model_type", "status", "services",
              "catalog", "graph">>

\* list(d.keys())
KeysList(d) == SelectSeq(KeyOrder, LAMBDA k : k \in DOMAIN d)

\* The order in which glob('*') yields the entries of /workspace/input.
GlobOrder == <<"config.json", "data.csv", "graph_data.json", "sub">>

-----------------------------------------------------------------------------
(* The enumerated workspaces                                                *)

NodeList(n) == [i \in 1..n |-> [id |-> i]]

\* A GraphSnapshot with n nodes and m relationships holding the given keys.
GraphData(keys, n, m) ==
    [k \in keys |-> IF k = "nodes" THEN NodeList(n) ELSE NodeList(m)]

FileNames(n) == [i \in 1..n |-> i]

\* A JSON value for input_files: a list of n file names, or null.
JsonList(n) == [is_list |-> TRUE, items |-> FileNames(n)]
JsonNull == [is_list |-> FALSE, items |-> <<>>]

\* A config.json object.
ConfigObj(keys, op, files, model) ==
    [k \in keys |-> IF k = "operation" THEN op
                    ELSE IF k = "input_files" THEN files
                    ELSE model]

Operations == {"data_processing", "ml_training", "default", "other"}

File(c) == [is_file |-> TRUE, content |-> c]
Directory == [is_file |-> FALSE, content |-> "dir"]

\* The entries of /workspace/input besides graph_data.json and config.json.
OtherInputs(extra) ==
    IF extra THEN [n \in {"data.csv", "sub"} |->
                      IF n = "sub" THEN Directory ELSE File("csv")]
    ELSE EmptyObj

\* f extended by n |-> e when present holds.
With(f, present, n, e) == IF present THEN Put(f, n, e) ELSE f

NoResponse == [kind |-> "none", status_code |-> 0, is_json |-> FALSE,
               body |-> EmptyObj]

Locals ==
    /\ pc = "start"
    /\ outputDir = EmptyObj
    /\ execution_id = ""
    /\ results = EmptyObj
    /\ config = EmptyObj
    /\ result = EmptyObj
    /\ retval = -1
    /\ health_response = NoResponse
    /\ healthRequests = 0
    /\ writeLog = <<>>
    /\ handlerLog = <<>>

\* The environment: EXECUTION_ID and SERVICE_PROXY_URL, each possibly unset.
Env(hasId, hasUrl, url) ==
    With(With(EmptyObj, hasId, "EXECUTION_ID", "exec-1"),
         hasUrl, "SERVICE_PROXY_URL", url)

\* config/config.json as the Materializer writes it: absent, or an object.
ConfigDirs ==
    {EmptyObj}
    \cup {[n \in {"config.json"} |-> ConfigObj(keys, op, JsonList(1), "svm")] :
            keys \in {{}, {"operation"}, {"operation", "input_files"}},
            op \in {"data_processing", "ml_training", "other"}}

InitTest ==
    /\ script = "test"
    /\ \E hasGraph \in BOOLEAN, keys \in SUBSET {"nodes", "relationships"},
          n \in 0..MaxNodes, m \in 0..MaxRels, extra \in BOOLEAN :
          /\ ("nodes" \notin keys => n = 0)
          /\ ("relationships" \notin keys => m = 0)
          /\ (~hasGraph => keys = {})
          /\ inputDir = With(With(OtherInputs(extra), hasGraph, "graph_data.json",
                                  File(GraphData(keys, n, m))),
                             extra, "config.json",
                             File(ConfigObj({"operation"}, "default", JsonNull, "")))
    /\ configDir \in ConfigDirs
    /\ \E hasId \in BOOLEAN, hasUrl \in BOOLEAN, url \in {"", "http://proxy"} :
          /\ (~hasUrl => url = "")
          /\ env = Env(hasId, hasUrl, url)
    /\ outputExists \in BOOLEAN
    /\ Locals

InitWorker ==
    /\ script = "worker"
    /\ \E hasConfig \in BOOLEAN,
          keys \in SUBSET {"operation", "input_files", "model_type"},
          op \in Operations, isList \in BOOLEAN, n \in 0..MaxFiles,
          extra \in BOOLEAN :
          /\ (~hasConfig => keys = {})
          /\ ("operation" \notin keys => op = "default")
          /\ (("input_files" \notin keys \/ ~isList) => n = 0)
          /\ ("input_files" \notin keys => isList)
          /\ inputDir = With(With(OtherInputs(extra), hasConfig, "config.json",
                                  File(ConfigObj(keys, op,
                                                 IF isList THEN JsonList(n) ELSE JsonNull,
                                                 "svm"))),
                             extra, "graph_data.json",
                             File(GraphData({"nodes", "relationships"}, 1, 0)))
    /\ configDir \in ConfigDirs
    /\ \E hasUrl \in BOOLEAN : env = Env(TRUE, hasUrl, "http://proxy")
    /\ outputExists \in BOOLEAN
    /\ Locals

Init == InitTest \/ InitWorker

-----------------------------------------------------------------------------
(* test_container.py                                                        *)

\* Lines 18-32: read EXECUTION_ID, create output/ unless it exists.
TestStart ==
    /\ script = "test" /\ pc = "start"
    /\ execution_id' = Get(env, "EXECUTION_ID", "unknown")
    /\ outputExists' = TRUE
    /\ pc' = "read_graph"
    /\ UNCHANGED <<workspaceVars, outputDir, results, config, result, retval,
                   health_response, healthRequests, writeLog, handlerLog>>

\* ReadGraphData counting the nodes for both statistics.
ReadGraphData_NodesTwice(res, input) ==
    IF "graph_data.json" \in DOMAIN input
    THEN LET graph_data == input["graph_data.json"].content
         IN  Put(res, "input_graph_stats",
                 [node_count |-> Len(Get(graph_data, "nodes", <<>>)),
                  relationship_count |-> Len(Get(graph_data, "nodes", <<>>))])
    ELSE res

\* Lines 37-46: results after the graph statistics are taken.
ReadGraphData(res, input) ==
    IF "graph_data.json" \in DOMAIN input
    THEN LET graph_data == input["graph_data.json"].content
         IN  Put(res, "input_graph_stats",
                 [node_count |-> Len(Get(graph_data, "nodes", <<>>)),
                  relationship_count |-> Len(Get(graph_data, "relationships", <<>>))])
    ELSE res

TestReadGraph ==
    /\ script = "test" /\ pc = "read_graph"
    /\ results' = ReadGraphData(results, inputDir)
    /\ pc' = "read_config"
    /\ UNCHANGED <<workspaceVars, outputExists, outputDir, execution_id, config,
                   result, retval, health_response, healthRequests, writeLog,
                   handlerLog>>

\* Lines 48-54: results after config/config.json is read.
ReadConfiguration(res, cfgdir) ==
    IF "config.json" \in DOMAIN cfgdir
    THEN Put(res, "config_keys", KeysList(cfgdir["config.json"]))
    ELSE res

TestReadConfig ==
    /\ script = "test" /\ pc = "read_config"
    /\ results' = ReadConfiguration(results, configDir)
    /\ pc' = "list_inputs"
    /\ UNCHANGED <<workspaceVars, outputExists, outputDir, execution_id, config,
                   result, retval, health_response, healthRequests, writeLog,
                   handlerLog>>

\* Lines 56-59: the names of the regular files directly under input/.
ListInputFiles(res, input) ==
    Put(res, "input_files",
        SelectSeq(GlobOrder, LAMBDA n : n \in DOMAIN input /\ input[n].is_file))

TestListInputs ==
    /\ script = "test" /\ pc = "list_inputs"
    /\ results' = ListInputFiles(results, inputDir)
    /\ pc' = "service"
    /\ UNCHANGED <<workspaceVars, outputExists, outputDir, execution_id, config,
                   result, retval, health_response, healthRequests, writeLog,
                   handlerLog>>

ServiceNames == {"catalog", "graph"}

\* A services value of a /health body: a mapping with the given names, or null.
Services(isMap, names) == [is_map |-> isMap, names |-> names]

\* What requests.get(f"{url}/health", timeout=5) can meet.
Responses ==
    {[kind |-> k, status_code |-> 0, is_json |-> FALSE, body |-> EmptyObj] :
        k \in {"conn_error", "timeout"}}
    \cup {[kind |-> "http", status_code |-> c, is_json |-> FALSE, body |-> EmptyObj] :
            c \in {200, 404, 503}}
    \cup {[kind |-> "http", status_code |-> c, is_json |-> TRUE,
           body |-> [k \in keys |-> IF k = "status" THEN st ELSE sv]] :
            c \in {200, 503},
            keys \in SUBSET {"status", "services"},
            st \in {"healthy", "unhealthy"},
            sv \in {Services(TRUE, S) : S \in SUBSET ServiceNames}
                   \cup {Services(FALSE, {})}}

\* Lines 62-63: os.environ.get('SERVICE_PROXY_URL') is set and not empty.
ServiceProxyGranted(e) ==
    "SERVICE_PROXY_URL" \in DOMAIN e /\ e["SERVICE_PROXY_URL"] # ""

\* An except clause that catches the exceptions of requests alone.
Caught_RequestErrorsOnly(exc) ==
    exc \in {"ConnectionError", "Timeout", "JSONDecodeError"}

\* Line 75: `except Exception` catches every exception the try block raises.
Caught(exc) ==
    exc \in {"ConnectionError", "Timeout", "JSONDecodeError", "KeyError",
             "AttributeError"}

\* TryHealth reading health_data['services'] instead of .get('services', {}).
TryHealth_IndexServices(res, resp) ==
    IF resp.kind = "conn_error" THEN [results |-> res, exc |-> "ConnectionError"]
    ELSE IF resp.kind = "timeout" THEN [results |-> res, exc |-> "Timeout"]
    ELSE IF resp.status_code = 200
    THEN IF ~resp.is_json THEN [results |-> res, exc |-> "JSONDecodeError"]
         ELSE IF "status" \notin DOMAIN resp.body
         THEN [results |-> res, exc |-> "KeyError"]
         ELSE LET healthy == Put(res, "service_proxy_status", "healthy")
              IN  IF "services" \notin DOMAIN resp.body
                  THEN [results |-> healthy, exc |-> "KeyError"]
                  ELSE IF ~resp.body.services.is_map
                  THEN [results |-> healthy, exc |-> "AttributeError"]
                  ELSE [results |-> Put(healthy, "available_services",
                                        SelectSeq(KeyOrder,
                                                  LAMBDA k : k \in resp.body.services.names)),
                        exc |-> ""]
    ELSE [results |-> Put(res, "service_proxy_status", "unhealthy"), exc |-> ""]

\* Lines 66-74: the body of the try block; exc is the exception it raised, "" if none.
TryHealth(res, resp) ==
    IF resp.kind = "conn_error" THEN [results |-> res, exc |-> "ConnectionError"]
    ELSE IF resp.kind = "timeout" THEN [results |-> res, exc |-> "Timeout"]
    ELSE IF resp.status_code = 200
    THEN IF ~resp.is_json THEN [results |-> res, exc |-> "JSONDecodeError"]
         ELSE IF "status" \notin DOMAIN resp.body
         THEN [results |-> res, exc |-> "KeyError"]
         ELSE LET healthy == Put(res, "service_proxy_status", "healthy")
                  services == Get(resp.body, "services", Services(TRUE, {}))
              IN  IF ~services.is_map
                  THEN [results |-> healthy, exc |-> "AttributeError"]
                  ELSE [results |-> Put(healthy, "available_services",
                                        SelectSeq(KeyOrder,
                                                  LAMBDA k : k \in services.names)),
                        exc |-> ""]
    ELSE [results |-> Put(res, "service_proxy_status", "unhealthy"), exc |-> ""]

\* Lines 64-77: the try statement; raised when the exception escapes it.
TestServiceAccess(res, resp) ==
    LET tried == TryHealth(res, resp)
    IN  IF tried.exc = "" THEN [results |-> tried.results, raised |-> FALSE]
        ELSE IF Caught(tried.exc)
        THEN [results |-> Put(tried.results, "service_proxy_error", tried.exc),
              raised |-> FALSE]
        ELSE [results |-> tried.results, raised |-> TRUE]

\* Lines 61-77.
TestService ==
    /\ script = "test" /\ pc = "service"
    /\ IF ServiceProxyGranted(env)
       THEN \E resp \in Responses :
               LET out == TestServiceAccess(results, resp)
               IN  /\ health_response' = resp
                   /\ healthRequests' = healthRequests + 1
                   /\ results' = out.results
                   /\ pc' = IF out.raised THEN "crashed" ELSE "write_results"
                   /\ retval' = IF out.raised THEN 1 ELSE retval
       ELSE /\ pc' = "write_results"
            /\ UNCHANGED <<health_response, healthRequests, results, retval>>
    /\ UNCHANGED <<workspaceVars, outputExists, outputDir, execution_id, config,
                   result, writeLog, handlerLog>>

\* Lines 84-86: the last three keys of results.
Finalize(res, id) ==
    Put(Put(Put(res, "execution_id", id), "status", "completed"),
        "message", "Test container executed successfully")

\* Lines 82-90: results.json.
TestWriteResults ==
    /\ script = "test" /\ pc = "write_results"
    /\ results' = Finalize(results, execution_id)
    /\ outputDir' = Put(outputDir, "results.json", results')
    /\ writeLog' = Append(writeLog, "results.json")
    /\ pc' = "write_analysis"
    /\ UNCHANGED <<workspaceVars, outputExists, execution_id, config, result,
                   retval, health_response, healthRequests, handlerLog>>

\* Lines 95-101: the text of analysis.txt, one field per line written.
AnalysisReport(res, id) ==
    [execution_id |-> id,
     input_files_processed |-> Len(Get(res, "input_files", <<>>)),
     service_proxy_available |-> "service_proxy_status" \in DOMAIN res,
     graph_data_available |-> "input_graph_stats" \in DOMAIN res,
     configuration_available |-> "config_keys" \in DOMAIN res]

\* Lines 92-102: analysis.txt.
TestWriteAnalysis ==
    /\ script = "test" /\ pc = "write_analysis"
    /\ outputDir' = Put(outputDir, "analysis.txt", AnalysisReport(results, execution_id))
    /\ writeLog' = Append(writeLog, "analysis.txt")
    /\ pc' = "graph_update"
    /\ UNCHANGED <<workspaceVars, outputExists, execution_id, results, config,
                   result, retval, health_response, healthRequests, handlerLog>>

\* Lines 107-131: the GraphDelta of one Analysis node and one relationship to it.
GraphUpdate(id) ==
    [nodes |-> <<[id |-> <<"analysis", id>>, status |-> "completed"]>>,
     relationships |-> <<[id |-> <<"analyzed", id>>, type |-> "ANALYZED_BY",
                          start_node |-> "original-data",
                          end_node |-> <<"analysis", id>>]>>]

\* TestGraphUpdate without the test of graph_file.exists().
TestGraphUpdate_Unconditional ==
    /\ script = "test" /\ pc = "graph_update"
    /\ outputDir' = Put(outputDir, "graph_update.json", GraphUpdate(execution_id))
    /\ writeLog' = Append(writeLog, "graph_update.json")
    /\ pc' = "return"
    /\ UNCHANGED <<workspaceVars, outputExists, execution_id, results, config,
                   result, retval, health_response, healthRequests, handlerLog>>

\* Lines 104-136: graph_update.json, if input/graph_data.json exists.
TestGraphUpdate ==
    /\ script = "test" /\ pc = "graph_update"
    /\ IF "graph_data.json" \in DOMAIN inputDir
       THEN /\ outputDir' = Put(outputDir, "graph_update.json", GraphUpdate(execution_id))
            /\ writeLog' = Append(writeLog, "graph_update.json")
       ELSE UNCHANGED <<outputDir, writeLog>>
    /\ pc' = "return"
    /\ UNCHANGED <<workspaceVars, outputExists, execution_id, results, config,
                   result, retval, health_response, healthRequests, handlerLog>>

\* Lines 138-139: return 0.
TestReturn ==
    /\ script = "test" /\ pc = "return"
    /\ retval' = 0
    /\ pc' = "done"
    /\ UNCHANGED <<workspaceVars, outputExists, outputDir, execution_id, results,
                   config, result, health_response, healthRequests, writeLog,
                   handlerLog>>

-----------------------------------------------------------------------------
(* worker_script.py                                                         *)

\* Lines 16-24: config is /workspace/input/config.json, or the default.
LoadConfig(input) ==
    IF "config.json" \in DOMAIN input
    THEN input["config.json"].content
    ELSE [operation |-> "default"]

WorkerLoadConfig ==
    /\ script = "worker" /\ pc = "start"
    /\ config' = LoadConfig(inputDir)
    /\ pc' = "dispatch"
    /\ UNCHANGED <<workspaceVars, outputExists, outputDir, execution_id, results,
                   result, retval, health_response, healthRequests, writeLog,
                   handlerLog>>

\* Lines 46-59.  len(input_files) raises TypeError when input_files is null.
process_data(cfg) ==
    LET input_files == Get(cfg, "input_files", JsonList(0))
    IN  IF ~input_files.is_list
        THEN [result |-> EmptyObj, exc |-> "TypeError"]
        ELSE [result |-> [operation |-> "data_processing",
                          files_processed |-> Len(input_files.items),
                          status |-> "completed",
                          output_files |-> <<"processed_data.json">>],
              exc |-> ""]

\* Lines 61-74.
train_model(cfg) ==
    [result |-> [operation |-> "ml_training",
                 model_type |-> Get(cfg, "model_type", "random_forest"),
                 accuracy |-> "0.95",
                 status |-> "completed",
                 output_files |-> <<"model.pkl", "metrics.json">>],
     exc |-> ""]

\* Lines 76-84.
default_processing(cfg) ==
    [result |-> [operation |-> "default",
                 status |-> "completed",
                 message |-> "Default processing completed successfully"],
     exc |-> ""]

\* Handler with the elif of 'ml_training' testing 'data_processing' again.
Handler_RepeatedTest(cfg) ==
    LET operation == Get(cfg, "operation", "default")
    IN  IF operation = "data_processing" THEN "process_data"
        ELSE IF operation = "data_processing" THEN "train_model"
        ELSE "default_processing"

\* Lines 27-34: the handler main() calls for cfg.
Handler(cfg) ==
    LET operation == Get(cfg, "operation", "default")
    IN  IF operation = "data_processing" THEN "process_data"
        ELSE IF operation = "ml_training" THEN "train_model"
        ELSE "default_processing"

\* Lines 29-34: the call of the handler.
Call(handler, cfg) ==
    IF handler = "process_data" THEN process_data(cfg)
    ELSE IF handler = "train_model" THEN train_model(cfg)
    ELSE default_processing(cfg)

\* Lines 26-34.
WorkerDispatch ==
    /\ script = "worker" /\ pc = "dispatch"
    /\ LET out == Call(Handler(config), config)
       IN  /\ handlerLog' = Append(handlerLog, Handler(config))
           /\ result' = out.result
           /\ pc' = IF out.exc = "" THEN "mkdir" ELSE "crashed"
           /\ retval' = IF out.exc = "" THEN retval ELSE 1
    /\ UNCHANGED <<workspaceVars, outputExists, outputDir, execution_id, results,
                   config, health_response, healthRequests, writeLog>>

\* Lines 37-38: output_dir.mkdir(exist_ok=True).
WorkerMkdir ==
    /\ script = "worker" /\ pc = "mkdir"
    /\ outputExists' = TRUE
    /\ pc' = "write_result"
    /\ UNCHANGED <<workspaceVars, outputDir, execution_id, results, config, result,
                   retval, health_response, healthRequests, writeLog, handlerLog>>

\* Lines 40-41: result.json.
WorkerWriteResult ==
    /\ script = "worker" /\ pc = "write_result"
    /\ outputDir' = Put(outputDir, "result.json", result)
    /\ writeLog' = Append(writeLog, "result.json")
    /\ pc' = "return"
    /\ UNCHANGED <<workspaceVars, outputExists, execution_id, results, config,
                   result, retval, health_response, healthRequests, handlerLog>>

\* Lines 43-44: return 0.
WorkerReturn ==
    /\ script = "worker" /\ pc = "return"
    /\ retval' = 0
    /\ pc' = "done"
    /\ UNCHANGED <<workspaceVars, outputExists, outputDir, execution_id, results,
                   config, result, health_response, healthRequests, writeLog,
                   handlerLog>>

-----------------------------------------------------------------------------

Next ==
    \/ TestStart
    \/ TestReadGraph
    \/ TestReadConfig
    \/ TestListInputs
    \/ TestService
    \/ TestWriteResults
    \/ TestWriteAnalysis
    \/ TestGraphUpdate
    \/ TestReturn
    \/ WorkerLoadConfig
    \/ WorkerDispatch
    \/ WorkerMkdir
    \/ WorkerWriteResult
    \/ WorkerReturn

Spec == Init /\ [][Next]_vars

-----------------------------------------------------------------------------
(* Claims                                                                   *)

\* The file a run wrote under output/, once it is there.
Written(f) == f \in DOMAIN outputDir

\* The elements of a list.
Elems(list) == {list[i] : i \in DOMAIN list}

\* The run still has a step to take unless main() has returned.
Progresses == pc # "done" => ENABLED Next

\* C1: test container with SERVICE_PROXY_URL unset and input/graph_data.json
\* holding n nodes and m relationships: no health request is made, main()
\* returns 0, and results.json has status 'completed', input_graph_stats
\* {node_count: n, relationship_count: m} and no service_proxy_status key.
C1_NoProxyGraphStats ==
    (script = "test" /\ "SERVICE_PROXY_URL" \notin DOMAIN env
        /\ "graph_data.json" \in DOMAIN inputDir)
    => /\ healthRequests = 0
       /\ pc # "crashed"
       /\ Progresses
       /\ pc = "done" =>
            /\ retval = 0
            /\ Written("results.json")
            /\ outputDir["results.json"].status = "completed"
            /\ "service_proxy_status" \notin DOMAIN outputDir["results.json"]
            /\ "input_graph_stats" \in DOMAIN outputDir["results.json"]
            /\ \A keys \in SUBSET {"nodes", "relationships"},
                  n \in 0..MaxNodes, m \in 0..MaxRels :
                  (/\ "nodes" \notin keys => n = 0
                   /\ "relationships" \notin keys => m = 0
                   /\ inputDir["graph_data.json"].content = GraphData(keys, n, m))
                  => outputDir["results.json"].input_graph_stats
                        = [node_count |-> n, relationship_count |-> m]

\* C1 happens: a finished run without proxy on a graph of 3 nodes and 2 relationships.
C1_Witness ==
    /\ script = "test" /\ pc = "done"
    /\ "SERVICE_PROXY_URL" \notin DOMAIN env
    /\ "graph_data.json" \in DOMAIN inputDir
    /\ inputDir["graph_data.json"].content = GraphData({"nodes", "relationships"}, 3, 2)
    /\ Written("results.json")

\* A /health answer of 200 whose body is {status: 'healthy', services: S}, S a
\* mapping or missing.
HealthyAnswer(resp) ==
    /\ resp.kind = "http" /\ resp.status_code = 200 /\ resp.is_json
    /\ "status" \in DOMAIN resp.body
    /\ resp.body.status = "healthy"
    /\ "services" \in DOMAIN resp.body => resp.body.services.is_map

\* The service names of the body of resp.
AnsweredServices(resp) ==
    IF "services" \in DOMAIN resp.body THEN resp.body.services.names ELSE {}

\* C2: when SERVICE_PROXY_URL is set and GET /health answers 200 with body
\* {status: 'healthy', services: S}, results.json holds service_proxy_status
\* 'healthy', available_services exactly the keys of S (empty when S is empty
\* or missing) and no service_proxy_error.
C2_HealthyGateway ==
    (script = "test" /\ Written("results.json") /\ healthRequests > 0
        /\ HealthyAnswer(health_response))
    => LET r == outputDir["results.json"]
       IN  /\ "service_proxy_status" \in DOMAIN r
           /\ r.service_proxy_status = "healthy"
           /\ "available_services" \in DOMAIN r
           /\ Elems(r.available_services) = AnsweredServices(health_response)
           /\ Len(r.available_services) = Cardinality(AnsweredServices(health_response))
           /\ "service_proxy_error" \notin DOMAIN r

\* C2 happens: results.json written after /health answered healthy with {catalog}.
C2_Witness ==
    /\ script = "test" /\ pc = "done" /\ Written("results.json")
    /\ healthRequests = 1
    /\ HealthyAnswer(health_response)
    /\ AnsweredServices(health_response) = {"catalog"}
    /\ "services" \in DOMAIN health_response.body

\* A /health call that failed: connection failure, timeout, non-200 status, a
\* 200 body that is not JSON, a 200 body without a status field.
FailedCall(resp) ==
    \/ resp.kind \in {"conn_error", "timeout"}
    \/ resp.kind = "http" /\ resp.status_code # 200
    \/ resp.kind = "http" /\ resp.status_code = 200 /\ ~resp.is_json
    \/ resp.kind = "http" /\ resp.status_code = 200 /\ resp.is_json
          /\ "status" \notin DOMAIN resp.body

\* C3: whatever the failed outcome of the /health call, main() goes on, writes
\* results.json with status 'completed' and the run's execution_id, writes
\* analysis.txt and returns 0.
C3_FailedCallContained ==
    (script = "test" /\ healthRequests > 0 /\ FailedCall(health_response))
    => /\ pc # "crashed"
       /\ Progresses
       /\ pc = "done" =>
            /\ retval = 0
            /\ Written("results.json")
            /\ outputDir["results.json"].status = "completed"
            /\ outputDir["results.json"].execution_id = Get(env, "EXECUTION_ID", "unknown")
            /\ Written("analysis.txt")

\* C3 happens: a run finished after a 200 answer without a status field.
C3_Witness ==
    /\ script = "test" /\ pc = "done" /\ healthRequests = 1
    /\ health_response.kind = "http" /\ health_response.status_code = 200
    /\ health_response.is_json /\ "status" \notin DOMAIN health_response.body
    /\ Written("analysis.txt")

\* results.json of the run of the same workspace with SERVICE_PROXY_URL unset.
ResultsWithoutProxy ==
    Finalize(ListInputFiles(ReadConfiguration(ReadGraphData(EmptyObj, inputDir),
                                              configDir),
                            inputDir),
             Get(env, "EXECUTION_ID", "unknown"))

\* C4: a run whose proxy cannot be connected to writes the results.json of the
\* run with SERVICE_PROXY_URL unset, and records no error.
C4_AbsentEqualsUnreachable ==
    (script = "test" /\ Written("results.json") /\ healthRequests > 0
        /\ health_response.kind = "conn_error")
    => /\ outputDir["results.json"] = ResultsWithoutProxy
       /\ "service_proxy_error" \notin DOMAIN outputDir["results.json"]

\* C5: every name in output_files of the result.json the worker script wrote
\* is a file under output/ when main() returns.
C5_OutputFilesExist ==
    (script = "worker" /\ pc = "done" /\ Written("result.json")
        /\ "output_files" \in DOMAIN outputDir["result.json"])
    => \A f \in Elems(outputDir["result.json"].output_files) : Written(f)

\* The files a script writes under output/.
OutputFilesOf(s) ==
    IF s = "worker" THEN {"result.json"}
    ELSE {"results.json", "analysis.txt"}
         \cup (IF "graph_data.json" \in DOMAIN inputDir THEN {"graph_update.json"} ELSE {})

\* How many times f was opened for writing.
WriteCount(f) == Cardinality({i \in DOMAIN writeLog : writeLog[i] = f})

\* At every point of a run: output/ holds only files of the script, each
\* written at most once; after return it holds all of them.
C6_State ==
    /\ DOMAIN outputDir = Elems(writeLog)
    /\ DOMAIN outputDir \subseteq OutputFilesOf(script)
    /\ \A f \in OutputFilesOf(script) : WriteCount(f) <= 1
    /\ DOMAIN outputDir # {} => outputExists
    /\ pc = "done" => outputExists /\ DOMAIN outputDir = OutputFilesOf(script)

\* In every step: input/ and config/ stay as they are, output/ is not removed,
\* and no file under output/ is removed or rewritten.
C6_Step ==
    /\ inputDir' = inputDir
    /\ configDir' = configDir
    /\ outputExists => outputExists'
    /\ \A f \in DOMAIN outputDir : f \in DOMAIN outputDir' /\ outputDir'[f] = outputDir[f]

\* C6: input/ and config/ are never changed; the only changes are under
\* output/ (created if absent): result.json for the worker script, and
\* results.json, analysis.txt and, exactly when input/graph_data.json exists,
\* graph_update.json for the test container, each written at most once.
C6_InputsReadOnly == [](C6_State) /\ [][C6_Step]_vars

\* C6 happens: the test container returned having written graph_update.json
\* into an output/ it had to create.
C6_Witness ==
    /\ script = "test" /\ pc = "done"
    /\ "graph_data.json" \in DOMAIN inputDir
    /\ writeLog = <<"results.json", "analysis.txt", "graph_update.json">>
    /\ "config.json" \in DOMAIN configDir

\* C7: when config/config.json is an object whose operation is
\* 'data_processing' or 'ml_training' the result.json of the worker script
\* reports that operation (so it reports 'default' only without such a file).
C7_ConfigFromConfigDir ==
    (script = "worker" /\ pc = "done" /\ "config.json" \in DOMAIN configDir)
    => LET cfg == configDir["config.json"]
       IN  ("operation" \in DOMAIN cfg
              /\ cfg.operation \in {"data_processing", "ml_training"})
           => outputDir["result.json"].operation = cfg.operation

\* The configuration file the worker script reads, {} when there is none.
WorkerConfigFile ==
    IF "config.json" \in DOMAIN inputDir THEN inputDir["config.json"].content
    ELSE EmptyObj

\* input_files of the configuration is a list, or absent.
InputFilesIsList ==
    "input_files" \in DOMAIN WorkerConfigFile => WorkerConfigFile.input_files.is_list

\* The operation result.json must report for the configuration.
ExpectedOperation ==
    IF "operation" \in DOMAIN WorkerConfigFile
          /\ WorkerConfigFile.operation \in {"data_processing", "ml_training"}
    THEN WorkerConfigFile.operation
    ELSE "default"

\* The length of the input_files list of the configuration, 0 when absent.
ExpectedFiles ==
    IF "input_files" \in DOMAIN WorkerConfigFile
    THEN Len(WorkerConfigFile.input_files.items)
    ELSE 0

\* What C8 says of every run apart from files_processed.
C8_Dispatch ==
    /\ pc # "crashed"
    /\ Progresses
    /\ Len(handlerLog) <= 1
    /\ WriteCount("result.json") <= 1
    /\ pc = "done" =>
         /\ retval = 0
         /\ Len(handlerLog) = 1
         /\ writeLog = <<"result.json">>
         /\ outputDir["result.json"].operation = ExpectedOperation
         /\ outputDir["result.json"].status = "completed"

C9_HealthyOnlyIfBodyHealthy ==
    (script = "test" /\ Written("results.json")
        /\ "service_proxy_status" \in DOMAIN outputDir["results.json"]
        /\ outputDir["results.json"].service_proxy_status = "healthy")
    => /\ health_response.kind = "http" /\ health_response.is_json
       /\ "status" \in DOMAIN health_response.body
       /\ health_response.body.status = "healthy"

\* C10: whenever the result file (results.json, result.json) exists with
\* status 'completed', every other output file the run produces is written.
C10_ResultFileLast ==
    \A f \in {"results.json", "result.json"} :
        (Written(f) /\ outputDir[f].status = "completed")
        => \A g \in OutputFilesOf(script) : Written(g)

====
